---------------------------- MODULE Spec2Model ----------------------------
(***************************************************************************)
(* TransactionScope (src/database/transaction-scope.ts): a unit of work    *)
(* that stages pending changes and AfterCommit hooks and replays the       *)
(* staged changes inside one datastore transaction on commit.              *)
(***************************************************************************)
EXTENDS Integers, Sequences, FiniteSets, TLC

\* ------------------------------------------------------------------ bounds
\* Calls on the scope (staging, registration, commit) over one behaviour.
MaxCalls == 4
\* Calls on the scope over one behaviour of the staging specification, whose
\* calls draw their arguments from the wide input sets.
MaxStagingCalls == 2

\* ----------------------------------------------------------- enumerations
\* TransactionCollectionEnum
RawQuery == "RAW_QUERY"
EntityCollection == "ENTITY_COLLECTION"
BulkEntityCollnection == "BULK_ENTITY_COLLECTION"
\* HookType
AfterCommit == "AFTER_COMMIT"
\* ObjectState (../common/enums); NoState is an absent objectState.
Insert == "Insert"
Update == "Update"
Delete == "Delete"
HardDelete == "HardDelete"
NoState == "undefined"

\* ---------------------------------------------------------------- entities
\* The caller's objects.  e1 carries a snapshot and changed fields, e2 carries
\* no snapshot, e3 carries a snapshot and no changed field; plain is an object
\* that is not an instance of EntityBase.
Entities == {"e1", "e2", "e3"}
PlainObject == "plain"

\* EntityBase.entitySnapshot, as a truth value.
entitySnapshot(e) == e \in {"e1", "e3"}

\* Field maps are sets of <<key, kind of value>>.
Literal == "literal"
Callable == "function"
\* The fields of e that differ from its snapshot before the scope touches it.
ChangedAtLoad(e) == IF e = "e1" THEN {<<"title", Literal>>} ELSE {}

\* A payload (TransactionScopeObject.object): an entity instance, a plain
\* object, an array of entities or a raw query.
EntityObj(e) ==
    [shape |-> IF e \in Entities THEN "instance" ELSE "plain",
     id |-> e, items |-> <<>>, query |-> "", parameters |-> ""]
ArrayObj(c) ==
    [shape |-> "array", id |-> "", items |-> c, query |-> "", parameters |-> ""]
RawObj(q, p) ==
    [shape |-> "raw", id |-> "", items |-> <<>>, query |-> q, parameters |-> p]

\* TransactionScopeOptions; an absent options has present = FALSE.
NoWhere == ""
NoOptions == [present |-> FALSE, where |-> NoWhere, values |-> {}]
Options(w, v) == [present |-> TRUE, where |-> w, values |-> v]

\* A TransactionScopeObject; tag is the identity of the staged object.
TrObj(type, object, objectState, options, tag) ==
    [type |-> type, object |-> object, objectState |-> objectState,
     options |-> options, tag |-> tag]

\* ------------------------------------------------- staging, as functions
\* Each takes the queue q (_transactionObjects) and the tag t of the next
\* staged record and gives the queue after the call.

addRawQuery(q, query, parameters, t) ==
    Append(q, TrObj(RawQuery, RawObj(query, parameters), NoState, NoOptions, t))

add(q, obj, t) ==
    Append(q, TrObj(EntityCollection, EntityObj(obj), Insert, NoOptions, t))

addCollection(q, collection, t) ==
    Append(q, TrObj(BulkEntityCollnection, ArrayObj(collection), Insert, NoOptions, t))

\* A faulty variant of update: the record is put at the head of the queue.
update_AtHead(q, obj, t) ==
    <<TrObj(EntityCollection, EntityObj(obj), Update, NoOptions, t)>> \o q

update(q, obj, t) ==
    Append(q, TrObj(EntityCollection, EntityObj(obj), Update, NoOptions, t))

delete(q, obj, t) ==
    Append(q, TrObj(EntityCollection, EntityObj(obj), Delete, NoOptions, t))

hardDelete(q, obj, t) ==
    Append(q, TrObj(EntityCollection, EntityObj(obj), HardDelete, NoOptions, t))

deleteCollection(q, collection, t) ==
    Append(q, TrObj(BulkEntityCollnection, ArrayObj(collection), Delete, NoOptions, t))

hardDeleteCollection(q, collection, t) ==
    Append(q, TrObj(BulkEntityCollnection, ArrayObj(collection), HardDelete, NoOptions, t))

\* collection.forEach((obj) => this.update(obj)), from position i on.
RECURSIVE UpdateEach(_, _, _, _)
UpdateEach(q, collection, i, t) ==
    IF i > Len(collection) THEN q
    ELSE UpdateEach(update(q, collection[i], t), collection, i + 1, t + 1)

\* A faulty variant of AnySnapshot: the test reads the first member only.
FirstSnapshot(collection) ==
    Len(collection) > 0 /\ entitySnapshot(collection[1])

\* The for loop's test: some member has a truthy entitySnapshot.
AnySnapshot(collection) ==
    \E i \in 1..Len(collection) : entitySnapshot(collection[i])

updateCollection(q, collection, t) ==
    IF AnySnapshot(collection)
    THEN UpdateEach(q, collection, 1, t)
    ELSE Append(q, TrObj(EntityCollection, ArrayObj(collection), Update, NoOptions, t))

\* The records updateCollection appends.
UpdateCollectionCount(collection) ==
    IF AnySnapshot(collection) THEN Len(collection) ELSE 1

\* A faulty variant of MergedValues: every key is written, callable or not.
MergedValues_All(values) == values

\* The keys of options.values the two custom-values methods write onto obj.
MergedValues(values) == {kv \in values : kv[2] # Callable}

insertWithCustomValues(q, obj, options, t) ==
    Append(q, TrObj(EntityCollection, EntityObj(obj), Insert, options, t))

updateWithCustomValues(q, obj, options, t) ==
    Append(q, TrObj(EntityCollection, EntityObj(obj), Update, options, t))

\* registerHook / registerAfterCommit, filterHooks, excludeHooks
registerAfterCommit(h, data, hid) ==
    Append(h, [type |-> AfterCommit, data |-> data, hid |-> hid])

\* The data the caller registers its n-th listener with.
DataOf(n) == n

filterHooks(h, type) == SelectSeq(h, LAMBDA hook : hook.type = type)

excludeHooks(h, type) == SelectSeq(h, LAMBDA hook : hook.type # type)

resetAfterCommit(h) == excludeHooks(h, AfterCommit)


\* ------------------------------------------------------- datastore calls
\* One call on the transaction's entity manager.  tag is the staged record
\* the call is made for (0: the bulk save, made for the whole queue); items
\* is the argument list of a bulk save; ok is whether the datastore accepted
\* the call.
Undefined == "undefined"
Call(op, tag, target, items, criteria, values, query, parameters) ==
    [op |-> op, tag |-> tag, target |-> target, items |-> items,
     criteria |-> criteria, values |-> values, query |-> query,
     parameters |-> parameters, ok |-> TRUE]

IdCriteria(e) == <<"id", e>>
WhereCriteria(w) == <<"where", w>>
NoCriteria == <<>>

\* EntityBase.getPropertiesToUpdate: the fields of e that differ from its
\* snapshot, given the fields f the scope has written onto e.
getPropertiesToUpdate(e, f) ==
    IF entitySnapshot(e) THEN ChangedAtLoad(e) \cup f ELSE {}

\* The generated map a targeted insert returns (generatedMaps[0]).
GeneratedMap == {<<"id", Literal>>}

\* ------------------------------------------------ commit, as functions
\* The non-bulk replay's dispatch of one record tr, given the fields f the
\* scope has written onto its entity: the datastore call it makes, or a
\* call whose op is "throw" where the code throws.
Thrown(tr) ==
    Call("throw", tr.tag, tr.object, <<>>, NoCriteria, {}, "", "")

\* A faulty variant of ReplayUpdate: the record's options are tested before
\* the entity's snapshot.
ReplayUpdate_OptionsFirst(tr, f) ==
    LET entity == tr.object IN
    IF entity.shape = "instance"
    THEN IF tr.options.present
         THEN Call("update", tr.tag, entity, <<>>,
                   IF tr.options.where # NoWhere
                   THEN WhereCriteria(tr.options.where)
                   ELSE IdCriteria(entity.id),
                   tr.options.values, "", "")
         ELSE IF entitySnapshot(entity.id)
         THEN Call("update", tr.tag, entity, <<>>, IdCriteria(entity.id),
                   getPropertiesToUpdate(entity.id, f), "", "")
         ELSE Call("save", tr.tag, entity, <<>>, NoCriteria, {}, "", "")
    ELSE IF entity.shape = "array"
    THEN Call("save", tr.tag, entity, <<>>, NoCriteria, {}, "", "")
    ELSE Thrown(tr)

ReplayUpdate(tr, f) ==
    LET entity == tr.object IN
    IF entity.shape = "instance"
    THEN IF entitySnapshot(entity.id)
         THEN Call("update", tr.tag, entity, <<>>, IdCriteria(entity.id),
                   getPropertiesToUpdate(entity.id, f), "", "")
         ELSE IF tr.options.present
         THEN Call("update", tr.tag, entity, <<>>,
                   IF tr.options.where # NoWhere
                   THEN WhereCriteria(tr.options.where)
                   ELSE IdCriteria(entity.id),
                   tr.options.values, "", "")
         ELSE Call("save", tr.tag, entity, <<>>, NoCriteria, {}, "", "")
    ELSE IF entity.shape = "array"
    THEN Call("save", tr.tag, entity, <<>>, NoCriteria, {}, "", "")
    ELSE Thrown(tr)

\* A faulty variant of ReplayInsert: the record's options are not looked at.
ReplayInsert_AlwaysSave(tr) ==
    Call("save", tr.tag, tr.object, <<>>, NoCriteria, {}, "", "")

ReplayInsert(tr) ==
    IF tr.options.present
    THEN Call("insert", tr.tag, tr.object, <<>>, NoCriteria, tr.options.values, "", "")
    ELSE Call("save", tr.tag, tr.object, <<>>, NoCriteria, {}, "", "")

ReplayCall(tr, f) ==
    IF tr.type = RawQuery
    THEN Call("query", tr.tag, tr.object, <<>>, NoCriteria, {},
              tr.object.query, tr.object.parameters)
    ELSE CASE tr.objectState = Delete ->
                Call("softRemove", tr.tag, tr.object, <<>>, NoCriteria, {}, "", "")
           [] tr.objectState = HardDelete ->
                Call("remove", tr.tag, tr.object, <<>>, NoCriteria, {}, "", "")
           [] tr.objectState = Update -> ReplayUpdate(tr, f)
           [] tr.objectState = Insert -> ReplayInsert(tr)

\* extractCollectionsFromTransactions.  An item of entityCollection is the
\* staged record itself (wrapper = TRUE) for an ENTITY_COLLECTION record and
\* a member of the array for a BULK_ENTITY_COLLECTION record; an item of
\* rawQueryCollection is the staged record itself.
Item(wrapper, tag, object) == [wrapper |-> wrapper, tag |-> tag, object |-> object]

Members(tr) ==
    [i \in 1..Len(tr.object.items) |-> Item(FALSE, tr.tag, EntityObj(tr.object.items[i]))]

RECURSIVE ExtractEntities(_, _)
ExtractEntities(q, i) ==
    IF i > Len(q) THEN <<>>
    ELSE (IF q[i].type = EntityCollection THEN <<Item(TRUE, q[i].tag, q[i].object)>>
          ELSE IF q[i].type = BulkEntityCollnection THEN Members(q[i])
          ELSE <<>>) \o ExtractEntities(q, i + 1)

ExtractRawQueries(q) ==
    LET raw == SelectSeq(q, LAMBDA tr : tr.type \notin {EntityCollection, BulkEntityCollnection})
    IN [i \in 1..Len(raw) |-> Item(TRUE, raw[i].tag, raw[i].object)]

\* rawquery.query and rawquery.parameters, read off an item of
\* rawQueryCollection: the staged record has neither property.
RawQueryText(item) == IF item.wrapper THEN Undefined ELSE item.object.query
RawQueryParameters(item) == IF item.wrapper THEN Undefined ELSE item.object.parameters

BulkSaveCall(q) ==
    Call("save", 0, ArrayObj(<<>>), ExtractEntities(q, 1), NoCriteria, {}, "", "")

BulkQueryCall(item) ==
    Call("query", item.tag, item.object, <<>>, NoCriteria, {},
         RawQueryText(item), RawQueryParameters(item))

\* resetTransactionObjects
resetTransactionObjects == <<>>


\* ------------------------------------------------------------------ state
VARIABLES
    queue,            \* _transactionObjects
    hooks,            \* _hooks
    entityFields,     \* per object, the fields the scope has written onto it
    pc,               \* where the commit in flight is suspended; "idle": none
    bulk,             \* performEntityBulkUpsert of the commit in flight
    idx,              \* the position of the loop the commit is in
    rawQueryCollection, \* bulk mode's extracted raw queries
    afterCommitsHooks,  \* processAfterCommitHooks' filtered hooks
    calls,            \* the datastore calls of the current (or last) commit
    durable,          \* the calls of the transactions that committed
    durableAtBegin,   \* durable when the current (or last) commit was called
    commitMarks,      \* nStaged when each commit so far was called
    invoked,          \* the listeners the current (or last) commit invoked
    fired,            \* every listener invocation so far
    staleHooks,       \* the hooks that were registered when a commit failed
    outcome,          \* how the last commit ended
    nStaged,          \* records staged so far: the next record's tag is nStaged + 1
    nHooks,           \* hooks registered so far
    nCalls,           \* calls on the scope so far
    nCommits,         \* calls of commit so far
    lastOp            \* the last call on the scope, with the state before it

vars == <<queue, hooks, entityFields, pc, bulk, idx, rawQueryCollection,
          afterCommitsHooks, calls, durable, durableAtBegin, commitMarks, invoked, fired,
          staleHooks, outcome, nStaged, nHooks, nCalls, nCommits, lastOp>>

commitVars == <<pc, bulk, idx, rawQueryCollection, afterCommitsHooks, calls,
                durable, durableAtBegin, commitMarks, invoked, fired, staleHooks, outcome,
                nCommits>>

Objects == Entities \cup {PlainObject}

NoError == ""
Op(name, obj, collection, options, raised) ==
    [name |-> name, obj |-> obj, collection |-> collection, options |-> options,
     raised |-> raised, queueBefore |-> queue, hooksBefore |-> hooks,
     fieldsBefore |-> entityFields, callsBefore |-> calls]

NoOutcome == [kind |-> "none", error |-> NoError, txCommitted |-> FALSE]
Returned == [kind |-> "returned", error |-> NoError, txCommitted |-> TRUE]
Raised(error, committed) == [kind |-> "raised", error |-> error, txCommitted |-> committed]

Init ==
    /\ queue = <<>>
    /\ hooks = <<>>
    /\ entityFields = [o \in Objects |-> {}]
    /\ pc = "idle"
    /\ bulk = FALSE
    /\ idx = 1
    /\ rawQueryCollection = <<>>
    /\ afterCommitsHooks = <<>>
    /\ calls = <<>>
    /\ durable = <<>>
    /\ durableAtBegin = <<>>
    /\ commitMarks = <<>>
    /\ invoked = <<>>
    /\ fired = <<>>
    /\ staleHooks = {}
    /\ outcome = NoOutcome
    /\ nStaged = 0
    /\ nHooks = 0
    /\ nCalls = 0
    /\ nCommits = 0
    /\ lastOp = [name |-> "new", obj |-> "", collection |-> <<>>,
                 options |-> NoOptions, raised |-> NoError, queueBefore |-> <<>>,
                 hooksBefore |-> <<>>, fieldsBefore |-> [o \in Objects |-> {}],
                 callsBefore |-> <<>>]

\* ------------------------------------------------------- staging actions
\* A staging call that appends n records to the queue, giving q.
Stage(n, q, op) ==
    /\ nCalls < MaxCalls
    /\ nCalls' = nCalls + 1
    /\ queue' = q
    /\ nStaged' = nStaged + n
    /\ lastOp' = op
    /\ UNCHANGED <<hooks, nHooks>>

AddRawQuery(query, parameters) ==
    /\ Stage(1, addRawQuery(queue, query, parameters, nStaged + 1),
             Op("addRawQuery", "", <<>>, NoOptions, NoError))
    /\ UNCHANGED <<entityFields, commitVars>>

Add(obj) ==
    /\ Stage(1, add(queue, obj, nStaged + 1), Op("add", obj, <<>>, NoOptions, NoError))
    /\ UNCHANGED <<entityFields, commitVars>>

AddCollection(collection) ==
    /\ Stage(1, addCollection(queue, collection, nStaged + 1),
             Op("addCollection", "", collection, NoOptions, NoError))
    /\ UNCHANGED <<entityFields, commitVars>>

UpdateOne(obj) ==
    /\ Stage(1, update(queue, obj, nStaged + 1), Op("update", obj, <<>>, NoOptions, NoError))
    /\ UNCHANGED <<entityFields, commitVars>>

UpdateCollection(collection) ==
    /\ Stage(UpdateCollectionCount(collection),
             updateCollection(queue, collection, nStaged + 1),
             Op("updateCollection", "", collection, NoOptions, NoError))
    /\ UNCHANGED <<entityFields, commitVars>>

DeleteOne(obj) ==
    /\ Stage(1, delete(queue, obj, nStaged + 1), Op("delete", obj, <<>>, NoOptions, NoError))
    /\ UNCHANGED <<entityFields, commitVars>>

HardDeleteOne(obj) ==
    /\ Stage(1, hardDelete(queue, obj, nStaged + 1),
             Op("hardDelete", obj, <<>>, NoOptions, NoError))
    /\ UNCHANGED <<entityFields, commitVars>>

DeleteCollection(collection) ==
    /\ Stage(1, deleteCollection(queue, collection, nStaged + 1),
             Op("deleteCollection", "", collection, NoOptions, NoError))
    /\ UNCHANGED <<entityFields, commitVars>>

HardDeleteCollection(collection) ==
    /\ Stage(1, hardDeleteCollection(queue, collection, nStaged + 1),
             Op("hardDeleteCollection", "", collection, NoOptions, NoError))
    /\ UNCHANGED <<entityFields, commitVars>>

\* The fields of obj after the loop over Object.entries(options.values).
MergeOnto(obj, options) ==
    [entityFields EXCEPT ![obj] = @ \cup MergedValues(options.values)]

\* A faulty variant of InsertWithCustomValues: the criteria is tested after
\* the values have been written onto obj.
InsertWithCustomValues_MergeFirst(obj, options) ==
    IF options.where # NoWhere
    THEN /\ nCalls < MaxCalls
         /\ nCalls' = nCalls + 1
         /\ entityFields' = MergeOnto(obj, options)
         /\ lastOp' = Op("insertWithCustomValues", obj, <<>>, options, "BadRequestException")
         /\ UNCHANGED <<queue, hooks, nStaged, nHooks, commitVars>>
    ELSE /\ Stage(1, insertWithCustomValues(queue, obj, options, nStaged + 1),
                  Op("insertWithCustomValues", obj, <<>>, options, NoError))
         /\ entityFields' = MergeOnto(obj, options)
         /\ UNCHANGED commitVars

InsertWithCustomValues(obj, options) ==
    IF options.where # NoWhere
    THEN \* throw new BadRequestException
         /\ nCalls < MaxCalls
         /\ nCalls' = nCalls + 1
         /\ lastOp' = Op("insertWithCustomValues", obj, <<>>, options, "BadRequestException")
         /\ UNCHANGED <<queue, hooks, entityFields, nStaged, nHooks, commitVars>>
    ELSE /\ Stage(1, insertWithCustomValues(queue, obj, options, nStaged + 1),
                  Op("insertWithCustomValues", obj, <<>>, options, NoError))
         /\ entityFields' = MergeOnto(obj, options)
         /\ UNCHANGED commitVars

UpdateWithCustomValues(obj, options) ==
    /\ Stage(1, updateWithCustomValues(queue, obj, options, nStaged + 1),
             Op("updateWithCustomValues", obj, <<>>, options, NoError))
    /\ entityFields' = MergeOnto(obj, options)
    /\ UNCHANGED commitVars

RegisterAfterCommit ==
    /\ nCalls < MaxCalls
    /\ nCalls' = nCalls + 1
    /\ hooks' = registerAfterCommit(hooks, DataOf(nHooks + 1), nHooks + 1)
    /\ nHooks' = nHooks + 1
    /\ lastOp' = Op("registerAfterCommit", "", <<>>, NoOptions, NoError)
    /\ UNCHANGED <<queue, entityFields, nStaged, commitVars>>

\* (a call on an empty registry changes nothing and is left out)
ResetAfterCommit ==
    /\ hooks # <<>>
    /\ nCalls < MaxCalls
    /\ nCalls' = nCalls + 1
    /\ hooks' = resetAfterCommit(hooks)
    /\ lastOp' = Op("resetAfterCommit", "", <<>>, NoOptions, NoError)
    /\ UNCHANGED <<queue, entityFields, nStaged, nHooks, commitVars>>


\* -------------------------------------------------------- commit actions
\* The fields the scope has written onto a payload that is one object.
FieldsOf(object) == IF object.id \in Objects THEN entityFields[object.id] ELSE {}

\* The datastore's answers to a call.
Failed(call) == [call EXCEPT !.ok = FALSE]
Written(cs) == SelectSeq(cs, LAMBDA c : c.ok)
HookIds(h) == {h[i].hid : i \in 1..Len(h)}

\* A faulty variant of CommitCatch: it rethrows without resetTransactionObjects.
CommitCatch_KeepQueue(error) ==
    /\ pc' = "idle"
    /\ outcome' = Raised(error, FALSE)
    /\ staleHooks' = staleHooks \cup HookIds(hooks)
    /\ UNCHANGED <<queue, hooks, durable, durableAtBegin, commitMarks, invoked, fired, bulk,
                   idx, rawQueryCollection, afterCommitsHooks, nCommits, nStaged,
                   nHooks, nCalls, lastOp>>

\* A faulty variant of CommitCatch: processAfterCommitHooks runs on the
\* failure path too.
CommitCatch_ThenHooks(error) ==
    /\ queue' = resetTransactionObjects
    /\ afterCommitsHooks' = filterHooks(hooks, AfterCommit)
    /\ idx' = 1
    /\ pc' = "hooks"
    /\ staleHooks' = staleHooks \cup HookIds(hooks)
    /\ UNCHANGED <<hooks, durable, durableAtBegin, commitMarks, invoked, fired, bulk,
                   rawQueryCollection, outcome, nCommits, nStaged, nHooks,
                   nCalls, lastOp>>

\* commit's catch block: the transaction has rolled back;
\* resetTransactionObjects, then throw error.
CommitCatch(error) ==
    /\ queue' = resetTransactionObjects
    /\ pc' = "idle"
    /\ outcome' = Raised(error, FALSE)
    /\ staleHooks' = staleHooks \cup HookIds(hooks)
    /\ UNCHANGED <<hooks, durable, durableAtBegin, commitMarks, invoked, fired, bulk, idx,
                   rawQueryCollection, afterCommitsHooks, nCommits, nStaged,
                   nHooks, nCalls, lastOp>>

\* commit(saveOptions, removeOptions, performEntityBulkUpsert): up to the
\* await of manager.transaction.
CommitCall(performEntityBulkUpsert) ==
    /\ pc = "idle"
    /\ nCalls < MaxCalls
    /\ nCalls' = nCalls + 1
    /\ nCommits' = nCommits + 1
    /\ pc' = "begin"
    /\ bulk' = performEntityBulkUpsert
    /\ idx' = 1
    /\ rawQueryCollection' = <<>>
    /\ afterCommitsHooks' = <<>>
    /\ calls' = <<>>
    /\ invoked' = <<>>
    /\ durableAtBegin' = durable
    /\ commitMarks' = Append(commitMarks, nStaged)
    /\ outcome' = NoOutcome
    /\ lastOp' = Op("commit", "", <<>>, NoOptions, NoError)
    /\ UNCHANGED <<queue, hooks, entityFields, durable, fired, staleHooks,
                   nStaged, nHooks>>

\* A faulty variant of TxOpen: the callback replays record by record whatever
\* performEntityBulkUpsert is.
TxOpen_AlwaysReplay ==
    /\ pc = "begin"
    /\ pc' = "replay"
    /\ UNCHANGED <<queue, hooks, entityFields, bulk, idx, rawQueryCollection,
                   afterCommitsHooks, calls, durable, durableAtBegin, commitMarks, invoked,
                   fired, staleHooks, outcome, nStaged, nHooks, nCalls, nCommits, lastOp>>

\* The transaction opens and the callback starts.
TxOpen ==
    /\ pc = "begin"
    /\ pc' = IF bulk THEN "bulkSave" ELSE "replay"
    /\ UNCHANGED <<queue, hooks, entityFields, bulk, idx, rawQueryCollection,
                   afterCommitsHooks, calls, durable, durableAtBegin, commitMarks, invoked,
                   fired, staleHooks, outcome, nStaged, nHooks, nCalls, nCommits, lastOp>>

\* The datastore fails to open the transaction.
TxOpenFail ==
    /\ pc = "begin"
    /\ CommitCatch("DatastoreError")
    /\ UNCHANGED <<entityFields, calls>>

\* A faulty variant of ReplayStep: the turn also steps over the next record.
ReplayStep_Skip ==
    /\ pc = "replay"
    /\ idx <= Len(queue)
    /\ LET transaction == queue[idx]
           call == ReplayCall(transaction, FieldsOf(transaction.object))
       IN /\ call.op # "throw"
          /\ calls' = Append(calls, call)
    /\ idx' = idx + 2
    /\ UNCHANGED <<queue, hooks, entityFields, pc, bulk, rawQueryCollection,
                   afterCommitsHooks, durable, durableAtBegin, commitMarks, invoked, fired,
                   staleHooks, outcome, nStaged, nHooks, nCalls, nCommits, lastOp>>

\* One turn of `for (const transaction of this.transactionObjects)` whose
\* datastore call succeeds.
ReplayStep ==
    /\ pc = "replay"
    /\ idx <= Len(queue)
    /\ LET transaction == queue[idx]
           call == ReplayCall(transaction, FieldsOf(transaction.object))
       IN /\ call.op # "throw"
          /\ calls' = Append(calls, call)
          /\ entityFields' =
                IF call.op = "insert"
                THEN \* OrmUtils.mergeDeep(transaction.object, insertResult)
                     [entityFields EXCEPT ![transaction.object.id] = @ \cup GeneratedMap]
                ELSE entityFields
    /\ idx' = idx + 1
    /\ UNCHANGED <<queue, hooks, pc, bulk, rawQueryCollection, afterCommitsHooks,
                   durable, durableAtBegin, commitMarks, invoked, fired, staleHooks, outcome,
                   nStaged, nHooks, nCalls, nCommits, lastOp>>

\* A faulty variant of ReplayStepFail: the error is swallowed and the loop
\* goes on.
ReplayStepFail_Swallow ==
    /\ pc = "replay"
    /\ idx <= Len(queue)
    /\ LET transaction == queue[idx]
           call == ReplayCall(transaction, FieldsOf(transaction.object))
       IN /\ call.op # "throw"
          /\ calls' = Append(calls, Failed(call))
    /\ idx' = idx + 1
    /\ UNCHANGED <<queue, hooks, entityFields, pc, bulk, rawQueryCollection,
                   afterCommitsHooks, durable, durableAtBegin, commitMarks, invoked, fired,
                   staleHooks, outcome, nStaged, nHooks, nCalls, nCommits, lastOp>>

\* One turn whose datastore call fails.
ReplayStepFail ==
    /\ pc = "replay"
    /\ idx <= Len(queue)
    /\ LET transaction == queue[idx]
           call == ReplayCall(transaction, FieldsOf(transaction.object))
       IN /\ call.op # "throw"
          /\ calls' = Append(calls, Failed(call))
    /\ CommitCatch("DatastoreError")
    /\ UNCHANGED entityFields

\* A faulty variant of ReplayStepThrow: the record is logged and passed over.
ReplayStepThrow_PassOver ==
    /\ pc = "replay"
    /\ idx <= Len(queue)
    /\ ReplayCall(queue[idx], {}).op = "throw"
    /\ idx' = idx + 1
    /\ UNCHANGED <<queue, hooks, entityFields, pc, bulk, rawQueryCollection,
                   afterCommitsHooks, calls, durable, durableAtBegin, commitMarks, invoked,
                   fired, staleHooks, outcome, nStaged, nHooks, nCalls, nCommits,
                   lastOp>>

\* One turn that throws 'Entity is not an instance of entity base'.
ReplayStepThrow ==
    /\ pc = "replay"
    /\ idx <= Len(queue)
    /\ ReplayCall(queue[idx], {}).op = "throw"
    /\ CommitCatch("InvariantViolation")
    /\ UNCHANGED <<entityFields, calls>>

\* The loop ends and the callback returns.
ReplayDone ==
    /\ pc = "replay"
    /\ idx > Len(queue)
    /\ pc' = "txcommit"
    /\ UNCHANGED <<queue, hooks, entityFields, bulk, idx, rawQueryCollection,
                   afterCommitsHooks, calls, durable, durableAtBegin, commitMarks, invoked,
                   fired, staleHooks, outcome, nStaged, nHooks, nCalls, nCommits, lastOp>>

\* Bulk mode: extractCollectionsFromTransactions and the one save.
BulkSave ==
    /\ pc = "bulkSave"
    /\ calls' = Append(calls, BulkSaveCall(queue))
    /\ rawQueryCollection' = ExtractRawQueries(queue)
    /\ idx' = 1
    /\ pc' = "bulkRaw"
    /\ UNCHANGED <<queue, hooks, entityFields, bulk, afterCommitsHooks, durable,
                   durableAtBegin, commitMarks, invoked, fired, staleHooks, outcome, nStaged,
                   nHooks, nCalls, nCommits, lastOp>>

BulkSaveFail ==
    /\ pc = "bulkSave"
    /\ calls' = Append(calls, Failed(BulkSaveCall(queue)))
    /\ CommitCatch("DatastoreError")
    /\ UNCHANGED entityFields

\* Bulk mode: one turn of `for (const rawquery of rawQueryCollection)`.
BulkRawStep ==
    /\ pc = "bulkRaw"
    /\ idx <= Len(rawQueryCollection)
    /\ calls' = Append(calls, BulkQueryCall(rawQueryCollection[idx]))
    /\ idx' = idx + 1
    /\ UNCHANGED <<queue, hooks, entityFields, pc, bulk, rawQueryCollection,
                   afterCommitsHooks, durable, durableAtBegin, commitMarks, invoked, fired,
                   staleHooks, outcome, nStaged, nHooks, nCalls, nCommits, lastOp>>

BulkRawStepFail ==
    /\ pc = "bulkRaw"
    /\ idx <= Len(rawQueryCollection)
    /\ calls' = Append(calls, Failed(BulkQueryCall(rawQueryCollection[idx])))
    /\ CommitCatch("DatastoreError")
    /\ UNCHANGED entityFields

BulkDone ==
    /\ pc = "bulkRaw"
    /\ idx > Len(rawQueryCollection)
    /\ pc' = "txcommit"
    /\ UNCHANGED <<queue, hooks, entityFields, bulk, idx, rawQueryCollection,
                   afterCommitsHooks, calls, durable, durableAtBegin, commitMarks, invoked,
                   fired, staleHooks, outcome, nStaged, nHooks, nCalls, nCommits, lastOp>>

\* A faulty variant of TxCommit: the queue is not reset on success.
TxCommit_KeepQueue ==
    /\ pc = "txcommit"
    /\ durable' = durable \o Written(calls)
    /\ afterCommitsHooks' = filterHooks(hooks, AfterCommit)
    /\ idx' = 1
    /\ pc' = "hooks"
    /\ UNCHANGED <<queue, hooks, entityFields, bulk, rawQueryCollection, calls,
                   durableAtBegin, commitMarks, invoked, fired, staleHooks,
                   outcome, nStaged, nHooks, nCalls, nCommits, lastOp>>

\* The transaction commits; resetTransactionObjects; processAfterCommitHooks
\* starts: filterHooks(HookType.AfterCommit).
TxCommit ==
    /\ pc = "txcommit"
    /\ durable' = durable \o Written(calls)
    /\ queue' = resetTransactionObjects
    /\ afterCommitsHooks' = filterHooks(hooks, AfterCommit)
    /\ idx' = 1
    /\ pc' = "hooks"
    /\ UNCHANGED <<hooks, entityFields, bulk, rawQueryCollection, calls,
                   durableAtBegin, commitMarks, invoked, fired, staleHooks, outcome, nStaged,
                   nHooks, nCalls, nCommits, lastOp>>

\* The datastore fails to commit the transaction.
TxCommitFail ==
    /\ pc = "txcommit"
    /\ CommitCatch("DatastoreError")
    /\ UNCHANGED <<entityFields, calls>>


\* ------------------------------------------- processAfterCommitHooks
\* hook.listener(hook.data): the argument the listener is called with.
ListenerArgument(hook) == hook.data

Invocation(hook, status) ==
    [hid |-> hook.hid, data |-> ListenerArgument(hook), status |-> status,
     commit |-> nCommits]

\* A faulty variant of HooksFinally: the registry is left as it is.
HooksFinally_KeepHooks(result) ==
    /\ hooks' = hooks
    /\ pc' = "idle"
    /\ outcome' = result

\* The finally block, and how commit ends after it.
HooksFinally(result) ==
    /\ hooks' = resetAfterCommit(hooks)
    /\ pc' = "idle"
    /\ outcome' = result

\* One turn of afterCommitsHooks.map: the listener returns (a promise, or
\* a value Promise.allSettled takes as fulfilled).
InvokeHook ==
    /\ pc = "hooks"
    /\ idx <= Len(afterCommitsHooks)
    /\ invoked' = Append(invoked, Invocation(afterCommitsHooks[idx], "pending"))
    /\ fired' = Append(fired, Invocation(afterCommitsHooks[idx], "called"))
    /\ idx' = idx + 1
    /\ UNCHANGED <<queue, hooks, entityFields, pc, bulk, rawQueryCollection,
                   afterCommitsHooks, calls, durable, durableAtBegin, commitMarks, staleHooks,
                   outcome, nStaged, nHooks, nCalls, nCommits, lastOp>>

\* One turn of afterCommitsHooks.map: the listener throws; map stops, the
\* catch block logs and rethrows, the finally block runs.
InvokeHookThrow ==
    /\ pc = "hooks"
    /\ idx <= Len(afterCommitsHooks)
    /\ invoked' = Append(invoked, Invocation(afterCommitsHooks[idx], "threw"))
    /\ fired' = Append(fired, Invocation(afterCommitsHooks[idx], "called"))
    /\ HooksFinally(Raised("HookError", TRUE))
    /\ UNCHANGED <<queue, entityFields, bulk, idx, rawQueryCollection,
                   afterCommitsHooks, calls, durable, durableAtBegin, commitMarks, staleHooks,
                   nStaged, nHooks, nCalls, nCommits, lastOp>>

\* map has called every listener: await Promise.allSettled(promises).
HooksMapped ==
    /\ pc = "hooks"
    /\ idx > Len(afterCommitsHooks)
    /\ pc' = "settle"
    /\ UNCHANGED <<queue, hooks, entityFields, bulk, idx, rawQueryCollection,
                   afterCommitsHooks, calls, durable, durableAtBegin, commitMarks, invoked,
                   fired, staleHooks, outcome, nStaged, nHooks, nCalls, nCommits, lastOp>>

\* A listener's promise settles, in any order among the pending ones.
SettleHook(i, status) ==
    /\ pc = "settle"
    /\ i \in 1..Len(invoked)
    /\ invoked[i].status = "pending"
    /\ invoked' = [invoked EXCEPT ![i].status = status]
    /\ UNCHANGED <<queue, hooks, entityFields, pc, bulk, idx, rawQueryCollection,
                   afterCommitsHooks, calls, durable, durableAtBegin, commitMarks, fired,
                   staleHooks, outcome, nStaged, nHooks, nCalls, nCommits, lastOp>>

\* Promise.allSettled resolves (it never rejects); the finally block runs
\* and commit returns.
HooksSettled ==
    /\ pc = "settle"
    /\ \A i \in 1..Len(invoked) : invoked[i].status # "pending"
    /\ HooksFinally(Returned)
    /\ UNCHANGED <<queue, entityFields, bulk, idx, rawQueryCollection,
                   afterCommitsHooks, calls, durable, durableAtBegin, commitMarks, invoked,
                   fired, staleHooks, nStaged, nHooks, nCalls, nCommits, lastOp>>

\* ------------------------------------------------------------ the inputs
RawInputs == {<<"q1", "p1">>, <<"q2", "p2">>}
ValueMaps == {{<<"name", Literal>>}, {<<"name", Literal>>, <<"fn", Callable>>}}
Wheres == {NoWhere, "x"}
AllOptions == {Options(w, v) : w \in Wheres, v \in ValueMaps}
\* Every array of at most two distinct entities.
Collections ==
    {<<>>} \cup {<<e>> : e \in Entities}
           \cup {c \in Entities \X Entities : c[1] # c[2]}

\* The staging calls of the commit protocol's specification: for each
\* outcome of the replay's dispatch (query, save, softRemove, remove, update
\* by id, update by criteria, insert, save of an array, throw) and each
\* branch of the bulk extraction, one call that stages such a record.
Staging ==
    \/ AddRawQuery("q1", "p1")
    \/ Add("e2")
    \/ \E o \in {"e1", PlainObject} : UpdateOne(o)
    \/ DeleteOne("e2")
    \/ HardDeleteOne("e2")
    \/ AddCollection(<<"e2", "e1">>)
    \/ UpdateCollection(<<"e2">>)
    \/ InsertWithCustomValues("e2", Options(NoWhere, {<<"name", Literal>>}))
    \/ UpdateWithCustomValues("e2", Options("x", {<<"name", Literal>>}))

Registering ==
    \/ RegisterAfterCommit
    \/ ResetAfterCommit

Committing ==
    \/ \E b \in BOOLEAN : CommitCall(b)
    \/ TxOpen
    \/ TxOpenFail
    \/ ReplayStep
    \/ ReplayStepFail
    \/ ReplayStepThrow
    \/ ReplayDone
    \/ BulkSave
    \/ BulkSaveFail
    \/ BulkRawStep
    \/ BulkRawStepFail
    \/ BulkDone
    \/ TxCommit
    \/ TxCommitFail
    \/ InvokeHook
    \/ InvokeHookThrow
    \/ HooksMapped
    \/ \E i \in 1..Len(invoked), s \in {"fulfilled", "rejected"} : SettleHook(i, s)
    \/ HooksSettled

\* One caller: staging and registration happen between commits.
Next ==
    \/ pc = "idle" /\ Staging
    \/ pc = "idle" /\ Registering
    \/ Committing

Spec == Init /\ [][Next]_vars

\* The staging specification: every staging and registration call, on every
\* input, and no commit.
StagingWide ==
    \/ \E r \in RawInputs : AddRawQuery(r[1], r[2])
    \/ \E o \in Objects : Add(o)
    \/ \E o \in Objects : UpdateOne(o)
    \/ \E o \in Objects : DeleteOne(o)
    \/ \E o \in Objects : HardDeleteOne(o)
    \/ \E c \in Collections : AddCollection(c)
    \/ \E c \in Collections : UpdateCollection(c)
    \/ \E c \in Collections : DeleteCollection(c)
    \/ \E c \in Collections : HardDeleteCollection(c)
    \/ \E e \in Entities, o \in AllOptions : InsertWithCustomValues(e, o)
    \/ \E e \in Entities, o \in AllOptions : UpdateWithCustomValues(e, o)

NextStaging ==
    \/ nCalls < MaxStagingCalls /\ StagingWide
    \/ nCalls < MaxStagingCalls /\ Registering

SpecStaging == Init /\ [][NextStaging]_vars


\* The dispatch specification: the staging calls that produce Update and
\* Insert records, on every object and every options value, followed by
\* non-bulk commits of a scope that has no hook registered.
DispatchCollections == {<<>>, <<"e2">>, <<"e3", "e1">>}

DispatchStaging ==
    \/ AddRawQuery("q1", "p1")
    \/ Add("e2")
    \/ AddCollection(<<"e2", "e1">>)
    \/ \E o \in Objects : UpdateOne(o)
    \/ \E c \in DispatchCollections : UpdateCollection(c)
    \/ \E o \in AllOptions : InsertWithCustomValues("e2", o)
    \/ \E e \in Entities, o \in AllOptions : UpdateWithCustomValues(e, o)

NextDispatch ==
    \/ pc = "idle" /\ nCalls < MaxStagingCalls /\ DispatchStaging
    \/ CommitCall(FALSE)
    \/ TxOpen
    \/ TxOpenFail
    \/ ReplayStep
    \/ ReplayStepFail
    \/ ReplayStepThrow
    \/ ReplayDone
    \/ TxCommit
    \/ TxCommitFail
    \/ HooksMapped
    \/ HooksSettled

SpecDispatch == Init /\ [][NextDispatch]_vars

\* The interleaved specification: a staging call may also run while a commit
\* of the same scope is suspended: awaiting the open of the transaction
\* ("begin"), a datastore call of the replay ("replay"), a datastore call of
\* the bulk branch ("bulkRaw": the collections have been extracted), or the
\* commit of the transaction ("txcommit").  The callback runs from the open
\* to its first datastore call without suspending, so nothing is staged at
\* "bulkSave".
SuspensionPoints == {"begin", "replay", "bulkRaw", "txcommit"}

InterleavedStaging ==
    \/ AddRawQuery("q1", "p1")
    \/ Add("e2")
    \/ UpdateOne("e1")

NextInterleaved ==
    \/ pc \in SuspensionPoints \cup {"idle"} /\ InterleavedStaging
    \/ \E b \in BOOLEAN : CommitCall(b)
    \/ TxOpen
    \/ TxOpenFail
    \/ ReplayStep
    \/ ReplayStepFail
    \/ ReplayDone
    \/ BulkSave
    \/ BulkSaveFail
    \/ BulkRawStep
    \/ BulkRawStepFail
    \/ BulkDone
    \/ TxCommit
    \/ TxCommitFail
    \/ HooksMapped
    \/ HooksSettled

SpecInterleaved == Init /\ [][NextInterleaved]_vars

\* ================================================================ claims
\* commit has ended and no call on the scope has followed it.
CommitEnded == pc = "idle" /\ lastOp.name = "commit"
\* The queue and the AfterCommit hooks when the last commit was called.
QueueAtCommit == lastOp.queueBefore
HooksAtCommit == filterHooks(lastOp.hooksBefore, AfterCommit)
SomeCallFailed == \E i \in 1..Len(calls) : ~calls[i].ok
NonePending == \A i \in 1..Len(invoked) : invoked[i].status # "pending"

\* C1: when commit returns or raises (bulk or not; the transaction committed,
\* a datastore call failed, the replay threw, or a hook threw), the
\* pending-change queue is empty.
C1_QueueEmptyWhenCommitEnds == CommitEnded => queue = <<>>

C1_Witness ==
    /\ CommitEnded
    /\ outcome = Raised("DatastoreError", FALSE)
    /\ Len(QueueAtCommit) >= 2
    /\ Len(calls) >= 2

\* C2: when a datastore call of the replay fails, commit raises the
\* datastore's error, the durable state is the one commit started from, the
\* failed call is the last call made, and (non-bulk) the calls made are
\* those of the first records of the queue, in order.
C2_FailedReplayRollsBack ==
    (CommitEnded /\ SomeCallFailed) =>
        /\ durable = durableAtBegin
        /\ outcome = Raised("DatastoreError", FALSE)
        /\ \A i \in 1..Len(calls) : calls[i].ok <=> i < Len(calls)
        /\ ~bulk => /\ Len(calls) <= Len(QueueAtCommit)
                    /\ \A i \in 1..Len(calls) : calls[i].tag = QueueAtCommit[i].tag

C2_Witness ==
    /\ CommitEnded
    /\ ~bulk
    /\ Len(QueueAtCommit) = 3
    /\ Len(calls) = 2
    /\ calls[1].ok
    /\ ~calls[2].ok

\* C3: after a non-bulk commit whose transaction committed, the datastore
\* calls made are one per staged record, in the order the records were
\* staged, and they are what became durable.
C3_ReplayInOrderExactlyOnce ==
    (CommitEnded /\ ~bulk /\ outcome.txCommitted) =>
        /\ Len(calls) = Len(QueueAtCommit)
        /\ \A i \in 1..Len(calls) : calls[i].tag = QueueAtCommit[i].tag /\ calls[i].ok
        /\ durable = durableAtBegin \o calls

C3_Witness ==
    /\ CommitEnded
    /\ ~bulk
    /\ outcome = Returned
    /\ Len(calls) = 3

\* C4: a listener has been invoked by the current (or last) commit only if
\* that commit is past its replay and its transaction has committed: the
\* calls of the transaction are durable.
C4_HooksOnlyAfterDurableCommit ==
    invoked # <<>> =>
        /\ pc \in {"hooks", "settle", "idle"}
        /\ pc = "idle" => outcome.txCommitted
        /\ durable = durableAtBegin \o Written(calls)
        /\ ~SomeCallFailed

C4_Witness ==
    /\ pc = "hooks"
    /\ invoked # <<>>
    /\ calls # <<>>
    /\ durable # durableAtBegin

\* C5 (as claimed): a hook that was registered when a commit failed is
\* never invoked.
C5_StaleHookNeverRuns ==
    \A i \in 1..Len(fired) : fired[i].hid \notin staleHooks

\* C6 (as claimed): when commit ends after its transaction committed, every
\* AfterCommit hook registered before the commit has been invoked once, with
\* its own data, and has settled.
C6_EveryHookInvokedOnce ==
    (CommitEnded /\ outcome.txCommitted) =>
        /\ Len(invoked) = Len(HooksAtCommit)
        /\ \A i \in 1..Len(invoked) :
              /\ invoked[i].hid = HooksAtCommit[i].hid
              /\ invoked[i].data = HooksAtCommit[i].data
        /\ NonePending

\* C7 (as claimed): when a listener threw or its promise was rejected,
\* commit raises the hook's failure after every hook has settled, and the
\* transaction's writes stay durable.
C7_HookFailureRaised ==
    (/\ CommitEnded
     /\ outcome.txCommitted
     /\ \E i \in 1..Len(invoked) : invoked[i].status \in {"threw", "rejected"}) =>
        /\ outcome = Raised("HookError", TRUE)
        /\ NonePending
        /\ durable = durableAtBegin \o Written(calls)

\* C8: when a commit whose transaction committed ends (returning or raising
\* a hook's error), no AfterCommit hook is registered; and no hook is
\* invoked twice over the life of the scope.
C8_RegistryEmptyAfterCommit ==
    /\ (CommitEnded /\ outcome.txCommitted) => filterHooks(hooks, AfterCommit) = <<>>
    /\ \A i, j \in 1..Len(fired) : fired[i].hid = fired[j].hid => i = j

C8_Witness ==
    /\ CommitEnded
    /\ nCommits = 2
    /\ outcome.txCommitted
    /\ HooksAtCommit = <<>>
    /\ \E i \in 1..Len(fired) : fired[i].commit = 1

\* The entity carried a non-empty snapshot-diff before the last call.
HadDiff(e) == getPropertiesToUpdate(e, lastOp.fieldsBefore[e]) # {}
SomeMemberHadDiff(collection) ==
    \E i \in 1..Len(collection) : HadDiff(collection[i])
\* The records the last call appended.
Appended == SubSeq(queue, Len(lastOp.queueBefore) + 1, Len(queue))
KeptBefore == SubSeq(queue, 1, Len(lastOp.queueBefore)) = lastOp.queueBefore

\* C9: updateCollection on a collection with a member that carries a
\* non-empty snapshot-diff appends one ENTITY_COLLECTION/Update record per
\* member, in collection order, each holding that member, and no record
\* holding an array.
C9_UpdateCollectionPerMember ==
    (lastOp.name = "updateCollection" /\ SomeMemberHadDiff(lastOp.collection)) =>
        /\ KeptBefore
        /\ Len(Appended) = Len(lastOp.collection)
        /\ \A i \in 1..Len(Appended) :
              /\ Appended[i].type = EntityCollection
              /\ Appended[i].objectState = Update
              /\ Appended[i].object = EntityObj(lastOp.collection[i])
              /\ ~Appended[i].options.present

C9_Witness ==
    /\ lastOp.name = "updateCollection"
    /\ lastOp.collection = <<"e2", "e1">>
    /\ Len(lastOp.queueBefore) = 1
    /\ Len(queue) = 3

\* C10 (as claimed): updateCollection on a collection with no member that
\* carries a non-empty snapshot-diff appends exactly one record, of kind
\* BULK_ENTITY_COLLECTION and state Update, holding the whole collection.
C10_UpdateCollectionOneBatch ==
    (lastOp.name = "updateCollection" /\ ~SomeMemberHadDiff(lastOp.collection)) =>
        /\ KeptBefore
        /\ Len(Appended) = 1
        /\ Appended[1].type = BulkEntityCollnection
        /\ Appended[1].objectState = Update
        /\ Appended[1].object = ArrayObj(lastOp.collection)


\* C11: insertWithCustomValues with options.where set throws
\* BadRequestException and changes nothing: the queue, the hook registry,
\* the fields of every object and the datastore calls are as before.
C11_InsertWithCriteriaRejected ==
    (lastOp.name = "insertWithCustomValues" /\ lastOp.options.where # NoWhere) =>
        /\ lastOp.raised = "BadRequestException"
        /\ queue = lastOp.queueBefore
        /\ hooks = lastOp.hooksBefore
        /\ entityFields = lastOp.fieldsBefore
        /\ calls = lastOp.callsBefore

C11_Witness ==
    /\ lastOp.name = "insertWithCustomValues"
    /\ lastOp.options.where = "x"
    /\ lastOp.raised = "BadRequestException"
    /\ <<"name", Literal>> \in lastOp.options.values
    /\ lastOp.queueBefore # <<>>

\* The last call was a custom-values call that staged its record.
CustomValuesStaged ==
    /\ lastOp.name \in {"insertWithCustomValues", "updateWithCustomValues"}
    /\ lastOp.raised = NoError
\* What the custom-values calls do to the entity, as claimed and as found:
\* every non-callable key of options.values is on the entity afterwards, no
\* callable key is, and no other object is touched.
CustomValuesMerged ==
    /\ \A kv \in lastOp.options.values :
          (kv[2] # Callable) <=> (kv \in entityFields[lastOp.obj])
    /\ \A kv \in lastOp.fieldsBefore[lastOp.obj] : kv \in entityFields[lastOp.obj]
    /\ \A o \in Objects \ {lastOp.obj} : entityFields[o] = lastOp.fieldsBefore[o]

\* C12 (as claimed): ... and the staged record's options.values holds the
\* non-callable keys only.
C12_StagedValuesNonCallableOnly ==
    CustomValuesStaged =>
        /\ CustomValuesMerged
        /\ Len(Appended) = 1
        /\ Appended[1].options.values =
              {kv \in lastOp.options.values : kv[2] # Callable}

\* C12 (amended): insertWithCustomValues and updateWithCustomValues write
\* every non-callable key of options.values onto the entity and no callable
\* key, and the one record they stage carries options as passed, callable
\* keys of options.values included.
C12_StagedValuesAsPassed ==
    CustomValuesStaged =>
        /\ CustomValuesMerged
        /\ KeptBefore
        /\ Len(Appended) = 1
        /\ Appended[1].object = EntityObj(lastOp.obj)
        /\ Appended[1].options = lastOp.options

C12_Witness ==
    /\ CustomValuesStaged
    /\ lastOp.name = "updateWithCustomValues"
    /\ <<"fn", Callable>> \in lastOp.options.values
    /\ <<"name", Literal>> \in entityFields[lastOp.obj]
    /\ lastOp.queueBefore # <<>>

\* The last call on the scope is a bulk commit (in flight or ended).
BulkCommit == lastOp.name = "commit" /\ bulk
\* The staged records that hold entities, and those that hold a raw query.
EntityRecords(q) ==
    SelectSeq(q, LAMBDA tr : tr.type \in {EntityCollection, BulkEntityCollnection})
RawRecords(q) == SelectSeq(q, LAMBDA tr : tr.type = RawQuery)

\* C13: a bulk commit makes no softRemove, remove, update or insert call,
\* only save and query; every record that holds entities, whatever its state
\* and options, is covered by the save call, in the same form as a record
\* staged by add or addCollection.
C13_BulkOnlySaveAndQuery ==
    BulkCommit =>
        /\ \A i \in 1..Len(calls) : calls[i].op \in {"save", "query"}
        /\ calls # <<>> =>
              /\ calls[1].op = "save"
              /\ \A j \in 1..Len(QueueAtCommit) :
                    LET tr == QueueAtCommit[j] IN
                    tr.type \in {EntityCollection, BulkEntityCollnection} =>
                        \E k \in 1..Len(calls[1].items) :
                            /\ calls[1].items[k].tag = tr.tag
                            /\ calls[1].items[k] \in
                                  {Item(TRUE, tr.tag, tr.object)} \cup
                                  {Members(tr)[m] : m \in 1..Len(tr.object.items)}

C13_Witness ==
    /\ BulkCommit
    /\ CommitEnded
    /\ outcome = Returned
    /\ \E j \in 1..Len(QueueAtCommit) : QueueAtCommit[j].objectState \in {Delete, HardDelete}
    /\ \E j \in 1..Len(QueueAtCommit) : QueueAtCommit[j].options.present
    /\ Len(calls[1].items) >= 3

\* The entities of the staged records, one item per entity, in staging order.
RECURSIVE StagedEntities(_, _)
StagedEntities(q, i) ==
    IF i > Len(q) THEN <<>>
    ELSE (IF q[i].type = EntityCollection THEN <<Item(FALSE, q[i].tag, q[i].object)>>
          ELSE IF q[i].type = BulkEntityCollnection THEN Members(q[i])
          ELSE <<>>) \o StagedEntities(q, i + 1)

\* C14 (as claimed): a bulk commit whose transaction committed made exactly
\* one save call, first, whose argument is the list of the staged entities
\* themselves in staging order, and then one query call per staged raw
\* query, in staging order, each with that raw query's text and parameters.
C14_BulkOneSaveThenQueries ==
    (BulkCommit /\ CommitEnded /\ outcome.txCommitted) =>
        LET raw == RawRecords(QueueAtCommit) IN
        /\ Len(calls) = 1 + Len(raw)
        /\ calls[1].op = "save"
        /\ calls[1].items = StagedEntities(QueueAtCommit, 1)
        /\ \A i \in 1..Len(raw) :
              /\ calls[1 + i].op = "query"
              /\ calls[1 + i].tag = raw[i].tag
              /\ calls[1 + i].query = raw[i].object.query
              /\ calls[1 + i].parameters = raw[i].object.parameters

\* The last call on the scope is a non-bulk commit (in flight or ended).
ReplayCommit == lastOp.name = "commit" /\ ~bulk
\* The i-th call of the replay is the one call made for the i-th record.
OneCallFor(i) ==
    /\ i <= Len(QueueAtCommit)
    /\ calls[i].tag = QueueAtCommit[i].tag
    /\ \A j \in 1..Len(calls) : calls[j].tag = calls[i].tag => j = i
\* The fields of entity e that differ from its snapshot, as far as the
\* states before and after the replay bound them.
ChangedFieldMap(values, e) ==
    /\ ChangedAtLoad(e) \cup lastOp.fieldsBefore[e] \subseteq values
    /\ values \subseteq ChangedAtLoad(e) \cup entityFields[e]
    /\ \A kv \in values : kv[2] # Callable

\* C15: in a non-bulk commit the one call made for an Update record is, for
\* an entity instance: with a snapshot, update by id writing the changed
\* fields (options ignored); else with options, update by options.where
\* (by id when unset) writing options.values; else save of the entity.  For
\* an array payload it is one save of the array.
C15_UpdateDispatch ==
    ReplayCommit =>
        \A i \in 1..Len(calls) :
            (i <= Len(QueueAtCommit) /\ QueueAtCommit[i].type # RawQuery
                                     /\ QueueAtCommit[i].objectState = Update) =>
                LET tr == QueueAtCommit[i]
                    c == calls[i]
                    e == tr.object.id
                IN /\ OneCallFor(i)
                   /\ c.target = tr.object
                   /\ tr.object.shape \in {"instance", "array"}
                   /\ tr.object.shape = "array" => c.op = "save"
                   /\ tr.object.shape = "instance" =>
                         IF entitySnapshot(e)
                         THEN /\ c.op = "update"
                              /\ c.criteria = IdCriteria(e)
                              /\ ChangedFieldMap(c.values, e)
                         ELSE IF tr.options.present
                         THEN /\ c.op = "update"
                              /\ c.criteria = IF tr.options.where # NoWhere
                                              THEN WhereCriteria(tr.options.where)
                                              ELSE IdCriteria(e)
                              /\ c.values = tr.options.values
                         ELSE c.op = "save"

C15_Witness ==
    /\ ReplayCommit
    /\ CommitEnded
    /\ outcome = Returned
    /\ Len(calls) = 2
    /\ QueueAtCommit[1].objectState = Update
    /\ QueueAtCommit[1].object = EntityObj("e1")
    /\ QueueAtCommit[1].options.where = "x"
    /\ <<"fn", Callable>> \in QueueAtCommit[1].options.values
    /\ calls[1].criteria = IdCriteria("e1")
    /\ QueueAtCommit[2].objectState = Update
    /\ QueueAtCommit[2].object.shape = "array"
    /\ calls[2].op = "save"

\* C16: in a non-bulk commit the one call made for an Insert record is, with
\* options, insert of options.values, after which the entity holds the
\* generated fields; without options, save of the entity or array.  When
\* the call has succeeded the replay is at the next record.
C16_InsertDispatch ==
    ReplayCommit =>
        \A i \in 1..Len(calls) :
            (i <= Len(QueueAtCommit) /\ QueueAtCommit[i].type # RawQuery
                                     /\ QueueAtCommit[i].objectState = Insert) =>
                LET tr == QueueAtCommit[i]
                    c == calls[i]
                IN /\ OneCallFor(i)
                   /\ c.target = tr.object
                   /\ IF tr.options.present
                      THEN /\ c.op = "insert"
                           /\ c.values = tr.options.values
                           /\ c.ok => GeneratedMap \subseteq entityFields[tr.object.id]
                      ELSE c.op = "save"
                   /\ (c.ok /\ i = Len(calls)) =>
                         \/ pc = "replay" /\ idx = i + 1
                         \/ pc # "replay" /\ (i = Len(QueueAtCommit) \/ ~outcome.txCommitted)

C16_Witness ==
    /\ ReplayCommit
    /\ CommitEnded
    /\ outcome = Returned
    /\ Len(calls) = 2
    /\ QueueAtCommit[1].objectState = Insert
    /\ QueueAtCommit[1].options.present
    /\ <<"fn", Callable>> \in QueueAtCommit[1].options.values
    /\ calls[1].op = "insert"
    /\ QueueAtCommit[2].objectState = Insert
    /\ ~QueueAtCommit[2].options.present
    /\ calls[2].op = "save"

\* An Update record whose payload is neither an entity instance nor an array.
UnrecognizedUpdate(tr) ==
    /\ tr.type # RawQuery
    /\ tr.objectState = Update
    /\ tr.object.shape \notin {"instance", "array"}
\* The position of the first such record in the queue of the last commit.
FirstUnrecognized ==
    CHOOSE k \in 1..Len(QueueAtCommit) :
        /\ UnrecognizedUpdate(QueueAtCommit[k])
        /\ \A j \in 1..(k - 1) : ~UnrecognizedUpdate(QueueAtCommit[j])

\* C17: a non-bulk commit whose queue holds an Update record that is
\* neither an entity instance nor an array never commits its transaction;
\* when its replay has reached that record, commit has raised
\* InvariantViolation, nothing has become durable, the calls made are those
\* of the records before it and no other, the queue is empty and no
\* listener has been invoked by this commit.
C17_UnrecognizedUpdateAborts ==
    (ReplayCommit /\ \E k \in 1..Len(QueueAtCommit) : UnrecognizedUpdate(QueueAtCommit[k])) =>
        /\ ~outcome.txCommitted
        /\ durable = durableAtBegin
        /\ invoked = <<>>
        /\ Len(calls) < FirstUnrecognized
        /\ \A i \in 1..Len(calls) : calls[i].tag = QueueAtCommit[i].tag
        /\ CommitEnded =>
              /\ queue = <<>>
              /\ outcome.kind = "raised"
              /\ outcome.error \in {"InvariantViolation", "DatastoreError"}
              /\ (~SomeCallFailed /\ Len(calls) = FirstUnrecognized - 1 /\ calls # <<>>)
                    => outcome.error = "InvariantViolation"

C17_Witness ==
    /\ ReplayCommit
    /\ CommitEnded
    /\ outcome = Raised("InvariantViolation", FALSE)
    /\ FirstUnrecognized = 2
    /\ Len(calls) = 1
    /\ calls[1].ok
    /\ HooksAtCommit # <<>>
    /\ hooks # <<>>

\* The staging calls that append one record without options, and the type,
\* state and payload of the record each is to append.
PlainStagingCalls ==
    {"addRawQuery", "add", "addCollection", "update", "delete", "hardDelete",
     "deleteCollection", "hardDeleteCollection"}
ExpectedType(name) ==
    CASE name = "addRawQuery" -> RawQuery
      [] name \in {"add", "update", "delete", "hardDelete"} -> EntityCollection
      [] name \in {"addCollection", "deleteCollection", "hardDeleteCollection"} ->
            BulkEntityCollnection
ExpectedState(name) ==
    CASE name = "addRawQuery" -> NoState
      [] name \in {"add", "addCollection"} -> Insert
      [] name = "update" -> Update
      [] name \in {"delete", "deleteCollection"} -> Delete
      [] name \in {"hardDelete", "hardDeleteCollection"} -> HardDelete
ExpectedPayloads(name) ==
    CASE name = "addRawQuery" -> {RawObj(r[1], r[2]) : r \in RawInputs}
      [] name \in {"add", "update", "delete", "hardDelete"} -> {EntityObj(lastOp.obj)}
      [] name \in {"addCollection", "deleteCollection", "hardDeleteCollection"} ->
            {ArrayObj(lastOp.collection)}

\* C18: addRawQuery, add, addCollection, update, delete, hardDelete,
\* deleteCollection and hardDeleteCollection each append exactly one record
\* of their type and state, holding their argument, at the tail of the
\* queue; the records staged before, the hook registry and the objects'
\* fields are as before and no datastore call is made.  registerAfterCommit
\* and resetAfterCommit leave the queue as it is.
C18_StagingAppendsOneRecord ==
    /\ lastOp.name \in PlainStagingCalls =>
          /\ Len(queue) = Len(lastOp.queueBefore) + 1
          /\ KeptBefore
          /\ Appended[1].type = ExpectedType(lastOp.name)
          /\ Appended[1].objectState = ExpectedState(lastOp.name)
          /\ Appended[1].object \in ExpectedPayloads(lastOp.name)
          /\ ~Appended[1].options.present
          /\ hooks = lastOp.hooksBefore
          /\ entityFields = lastOp.fieldsBefore
          /\ calls = lastOp.callsBefore
    /\ lastOp.name \in {"registerAfterCommit", "resetAfterCommit"} =>
          /\ queue = lastOp.queueBefore
          /\ calls = lastOp.callsBefore

C18_Witness ==
    /\ lastOp.name = "hardDeleteCollection"
    /\ lastOp.collection = <<"e2", "e1">>
    /\ Len(lastOp.queueBefore) = 1
    /\ lastOp.queueBefore[1].type = RawQuery
    /\ Len(queue) = 2

\* nStaged when the commit before the current (or last) one was called.
PrevMark == IF nCommits <= 1 THEN 0 ELSE commitMarks[nCommits - 1]
LastMark == IF nCommits = 0 THEN 0 ELSE commitMarks[nCommits]
\* The tags of the records the current (or last) commit has passed to the
\* datastore.
ExecutedTags ==
    ({calls[i].tag : i \in 1..Len(calls)} \cup
     UNION {{calls[i].items[k].tag : k \in 1..Len(calls[i].items)} :
                i \in 1..Len(calls)}) \ {0}
QueueTags == {queue[i].tag : i \in 1..Len(queue)}

\* C19: with staging and commits in sequence, every record a commit passes
\* to the datastore was staged after the previous commit was called and
\* before this one, and between commits the queue holds only records staged
\* after the last commit: no record is executed by two commits, and none
\* staged before a commit, failed or not, is executed by a later one.
C19_CommitExecutesOnlyFreshRecords ==
    /\ Len(commitMarks) = nCommits
    /\ \A k \in 1..(nCommits - 1) : commitMarks[k] <= commitMarks[k + 1]
    /\ \A t \in ExecutedTags : PrevMark < t /\ t <= LastMark
    /\ pc = "idle" => \A t \in QueueTags : LastMark < t
    /\ CommitEnded => nStaged = LastMark
    /\ \A i, j \in 1..Len(durable) :
          (durable[i].tag # 0 /\ durable[i].tag = durable[j].tag) => i = j

C19_Witness ==
    /\ CommitEnded
    /\ nCommits = 2
    /\ commitMarks = <<1, 2>>
    /\ outcome = Returned
    /\ ExecutedTags = {2}
    /\ durable = calls

\* C20 (as claimed): when a commit has ended, every record staged after it
\* was called has been passed to the datastore by it or is in the queue.
C20_InterleavedRecordNotLost ==
    (pc = "idle" /\ nCommits >= 1) =>
        \A t \in (LastMark + 1)..nStaged : t \in ExecutedTags \/ t \in QueueTags

=============================================================================
